---------------------------- MODULE Spec2Model ----------------------------
(***************************************************************************)
(* Model of the PostgreSQL migration runner (db/migrate.py).               *)
(*                                                                         *)
(* Text (file names, SQL contents, queries) is a sequence of one-character *)
(* strings, so that the string operations of the source (upper, strip,     *)
(* startswith, in, split, the REFERENCES regular expression, the sort by   *)
(* file name) are computed and not assumed.                                *)
(***************************************************************************)
EXTENDS Integers, Sequences, FiniteSets, TLC

(***************************************************************************)
(* Bounds of the model.                                                    *)
(***************************************************************************)
\* Largest number of files in a directory given to topological_sort.
MaxFiles == 3
\* Largest number of distinct tables one generated file references.
MaxRefs == 2
\* Number of successive runs of the runner against the same database.
MaxRuns == 2
\* Largest number of files in the directory of two concurrent runners.
MaxRaceFiles == 2
\* Largest number of workflows of the n8n instance.
MaxWorkflows == 2

(***************************************************************************)
(* Characters and Python's string operations.                              *)
(***************************************************************************)
LowerLetters ==
    <<"a", "b", "c", "d", "e", "f", "g", "h", "i", "j", "k", "l", "m",
      "n", "o", "p", "q", "r", "s", "t", "u", "v", "w", "x", "y", "z">>

UpperLetters ==
    <<"A", "B", "C", "D", "E", "F", "G", "H", "I", "J", "K", "L", "M",
      "N", "O", "P", "Q", "R", "S", "T", "U", "V", "W", "X", "Y", "Z">>

Digits == <<"0", "1", "2", "3", "4", "5", "6", "7", "8", "9">>

\* The characters of the model in increasing code point order (ASCII).
Ascii ==
    <<"\n", " ", "%", "(", ")", ",", ".">> \o Digits \o <<";", "=">>
    \o UpperLetters \o <<"_">> \o LowerLetters

Range(s) == {s[i] : i \in 1..Len(s)}

\* F applied to the value of e, the value computed once.
Strict(F(_), e) == CHOOSE r \in {F(v) : v \in {e}} : TRUE

\* The position of a character in the code point order.
ord == [c \in Range(Ascii) |-> CHOOSE i \in 1..Len(Ascii) : Ascii[i] = c]

Whitespace == {" ", "\n"}

\* \w of the re module.
WordChars == Range(LowerLetters) \cup Range(UpperLetters) \cup Range(Digits) \cup {"_"}

upperChar(c) ==
    IF c \in Range(LowerLetters)
    THEN UpperLetters[CHOOSE i \in 1..Len(LowerLetters) : LowerLetters[i] = c]
    ELSE c

\* str.upper()
upper(s) == [i \in 1..Len(s) |-> upperChar(s[i])]

lowerChar(c) ==
    IF c \in Range(UpperLetters)
    THEN LowerLetters[CHOOSE i \in 1..Len(UpperLetters) : UpperLetters[i] = c]
    ELSE c

\* str.lower()
lower(s) == [i \in 1..Len(s) |-> lowerChar(s[i])]

\* str.startswith(p)
startswith(s, p) == Len(p) <= Len(s) /\ SubSeq(s, 1, Len(p)) = p

\* p in s
contains(s, p) ==
    \E i \in 1..(Len(s) - Len(p) + 1) : SubSeq(s, i, i + Len(p) - 1) = p

\* str.strip()
strip(s) ==
    LET keep == {i \in 1..Len(s) : s[i] \notin Whitespace}
    IN  IF keep = {} THEN <<>>
        ELSE LET lo == CHOOSE i \in keep : \A j \in keep : i <= j
                 hi == CHOOSE i \in keep : \A j \in keep : j <= i
             IN  SubSeq(s, lo, hi)

\* str.split(c): the fragments between the occurrences of the character c.
split(s, c) ==
    LET marks == {0} \cup {i \in 1..Len(s) : s[i] = c} \cup {Len(s) + 1}
        \* the mark with k marks before it
        mark(k) == CHOOSE j \in marks : Cardinality({m \in marks : m < j}) = k
    IN  [k \in 1..(Cardinality(marks) - 1) |-> SubSeq(s, mark(k - 1) + 1, mark(k) - 1)]

\* a < b for two strings, as Python compares them (by code point, a proper
\* prefix first).
strLess(a, b) ==
    \E i \in 1..Len(b) :
        /\ i <= Len(a) + 1
        /\ SubSeq(a, 1, i - 1) = SubSeq(b, 1, i - 1)
        /\ (i = Len(a) + 1 \/ ord[a[i]] < ord[b[i]])

\* sorted(S): the strings of the set S in increasing order.
sorted(S) ==
    [k \in 1..Cardinality(S) |->
        CHOOSE x \in S : Cardinality({y \in S : strLess(y, x)}) = k - 1]

(***************************************************************************)
(* get_table_references                                                    *)
(***************************************************************************)
kwREFERENCES == <<"R", "E", "F", "E", "R", "E", "N", "C", "E", "S">>

\* re.search(r'REFERENCES\s+(\w+)', line): the group of the leftmost match,
\* or <<>> when nothing matches. A match at i is the keyword at i, a run of
\* whitespace after it, and a word character where that run ends.
referencesMatch(line) ==
    LET n == Len(line)
        k == Len(kwREFERENCES)
        \* the first position at or after i that holds no whitespace
        wsEnd(i) == CHOOSE j \in i..(n + 1) :
                        /\ \A h \in i..(j - 1) : line[h] \in Whitespace
                        /\ (j = n + 1 \/ line[j] \notin Whitespace)
        \* the first position at or after i that holds no word character
        wordEnd(i) == CHOOSE j \in i..(n + 1) :
                        /\ \A h \in i..(j - 1) : line[h] \in WordChars
                        /\ (j = n + 1 \/ line[j] \notin WordChars)
        matchAt(i) == /\ i + k <= n
                      /\ SubSeq(line, i, i + k - 1) = kwREFERENCES
                      /\ line[i + k] \in Whitespace
                      /\ wsEnd(i + k) <= n
                      /\ line[wsEnd(i + k)] \in WordChars
        starts == {i \in 1..n : matchAt(i)}
    IN  IF starts = {} THEN <<>>
        ELSE LET i == CHOOSE x \in starts : \A y \in starts : x <= y
                 w == wsEnd(i + k)
             IN  SubSeq(line, w, wordEnd(w) - 1)

\* The set of table names a file's content references.
get_table_references(sql_content) ==
    LET lines == split(sql_content, "\n")
    IN  {referencesMatch(lines[i]) :
            i \in {j \in 1..Len(lines) : /\ contains(lines[j], kwREFERENCES)
                                         /\ referencesMatch(lines[j]) # <<>>}}

(***************************************************************************)
(* Migration files: the contents given to the runner, and the names and   *)
(* contents given to topological_sort                                      *)
(***************************************************************************)
\* "INSERT INTO b VALUES (1);"
sqlPlain ==
    <<"I", "N", "S", "E", "R", "T", " ", "I", "N", "T", "O", " ", "b", " ", "V", "A",
      "L", "U", "E", "S", " ", "(", "1", ")", ";">>

\* "CREATE TABLE a (\n b_id INT REFERENCES b(id)\n);"
sqlRef ==
    <<"C", "R", "E", "A", "T", "E", " ", "T", "A", "B", "L", "E", " ", "a", " ", "(", "\n",
      " ", "b", "_", "i", "d", " ", "I", "N", "T", " ",
      "R", "E", "F", "E", "R", "E", "N", "C", "E", "S", " ", "b", "(", "i", "d", ")", "\n",
      ")", ";">>

\* "ALTER SYSTEM SET x = 1;\nCREATE DATABASE d;"
sqlAuto ==
    <<"A", "L", "T", "E", "R", " ", "S", "Y", "S", "T", "E", "M", " ", "S", "E", "T",
      " ", "x", " ", "=", " ", "1", ";", "\n", "C", "R", "E", "A", "T", "E", " ", "D",
      "A", "T", "A", "B", "A", "S", "E", " ", "d", ";">>

\* "begin;\nCREATE TABLE c (id INT);\ncommit;"
sqlOwnTxn ==
    <<"b", "e", "g", "i", "n", ";", "\n",
      "C", "R", "E", "A", "T", "E", " ", "T", "A", "B", "L", "E", " ", "c", " ",
      "(", "i", "d", " ", "I", "N", "T", ")", ";", "\n", "c", "o", "m", "m", "i", "t", ";">>

\* "BEGIN;\nINSERT INTO b VALUES (1);\nDROP DATABASE d;\nCOMMIT;"
sqlBoth ==
    <<"B", "E", "G", "I", "N", ";", "\n",
      "I", "N", "S", "E", "R", "T", " ", "I", "N", "T", "O", " ", "b", " ",
      "V", "A", "L", "U", "E", "S", " ", "(", "1", ")", ";", "\n",
      "D", "R", "O", "P", " ", "D", "A", "T", "A", "B", "A", "S", "E", " ", "d", ";", "\n",
      "C", "O", "M", "M", "I", "T", ";">>

\* "START TRANSACTION;\nCREATE TABLE e (id INT);"
sqlOpenTxn ==
    <<"S", "T", "A", "R", "T", " ", "T", "R", "A", "N", "S", "A", "C", "T", "I", "O", "N", ";",
      "\n", "C", "R", "E", "A", "T", "E", " ", "T", "A", "B", "L", "E", " ", "e", " ",
      "(", "i", "d", " ", "I", "N", "T", ")", ";">>

RunnerContents == {sqlPlain, sqlRef, sqlAuto, sqlOwnTxn, sqlBoth, sqlOpenTxn}

n0 == <<"0", "_", "i", "n", "i", "t", ".", "s", "q", "l">>
nA == <<"a", "_", "t", "a", "b", "l", "e", ".", "s", "q", "l">>
nAB == <<"a", "b", ".", "s", "q", "l">>
nB == <<"b", "_", "t", "a", "b", "l", "e", ".", "s", "q", "l">>

SortNames == {n0, nA, nAB, nB}

\* Table names: a resolves to a_table.sql or else to ab.sql, b to
\* b_table.sql, c to no file.
SortTables == {<<"a">>, <<"b">>, <<"c">>}

\* "x INT REFERENCES <t>(id),"
ref_line(t) ==
    <<"x", " ", "I", "N", "T", " ", "R", "E", "F", "E", "R", "E", "N", "C", "E", "S", " ">>
    \o t \o <<"(", "i", "d", ")", ",">>

\* One line per table of the list, joined by line breaks.
RECURSIVE ref_lines(_)
ref_lines(ts) ==
    IF ts = <<>> THEN <<>>
    ELSE IF Len(ts) = 1 THEN ref_line(ts[1])
    ELSE ref_line(ts[1]) \o <<"\n">> \o ref_lines(Tail(ts))

\* Two REFERENCES on one line: "x INT REFERENCES b(id), y INT REFERENCES a(id)".
sqlSameLine ==
    <<"x", " ", "I", "N", "T", " ", "R", "E", "F", "E", "R", "E", "N", "C", "E", "S", " ",
      "b", "(", "i", "d", ")", ",", " ", "y", " ", "I", "N", "T", " ",
      "R", "E", "F", "E", "R", "E", "N", "C", "E", "S", " ", "a", "(", "i", "d", ")">>

\* The keyword in lower case: "x int references a(id)".
sqlLowerCase ==
    <<"x", " ", "i", "n", "t", " ", "r", "e", "f", "e", "r", "e", "n", "c", "e", "s", " ",
      "a", "(", "i", "d", ")">>

SortContents ==
    {ref_lines(sorted(R)) : R \in {X \in SUBSET SortTables : Cardinality(X) <= MaxRefs}}
    \cup {sqlSameLine, sqlLowerCase}

\* Every directory of at most MaxFiles files.
SortDirs ==
    UNION {[S -> SortContents] :
              S \in {X \in SUBSET SortNames : Cardinality(X) <= MaxFiles}}

\* get_table_references of each content.
references_of == [c \in SortContents \cup RunnerContents |-> get_table_references(c)]

(***************************************************************************)
(* topological_sort                                                        *)
(***************************************************************************)
\* The value of next(..., None) when no file matches.
NoFile == <<>>

\* The dependency graph: file name -> set of referenced table names.
dependencies(d) == [f \in DOMAIN d |-> references_of[d[f]]]

\* A faulty resolution: the table name anywhere in the file name.
dep_file_substring(files, dep_table) ==
    LET hits == {i \in 1..Len(files) : contains(files[i], dep_table)}
    IN  IF hits = {} THEN NoFile
        ELSE files[CHOOSE i \in hits : \A j \in hits : i <= j]

\* next((f for f in migration_files if f.name.startswith(dep_table)), None)
\* over the list sorted by name: the first file whose name starts with the
\* table name.
dep_file(files, dep_table) ==
    LET hits == {i \in 1..Len(files) : startswith(files[i], dep_table)}
    IN  IF hits = {} THEN NoFile
        ELSE files[CHOOSE i \in hits : \A j \in hits : i <= j]

\* The order in which a for loop meets the elements of the set S. Python
\* iterates a set of strings in the order of their hashes, which are salted
\* per process: seed, an arrangement of the table names, is the order the
\* process at hand gives them.
iterate(S, seed) == SelectSeq(seed, LAMBDA t : t \in S)

\* All arrangements of the set S.
Arrangements(S) ==
    {s \in [1..Cardinality(S) -> S] : \A i, j \in DOMAIN s : s[i] = s[j] => i = j}

\* The arrangements of every table name some file of d references.
Seeds(d) == Arrangements(UNION {dependencies(d)[f] : f \in DOMAIN d})

RECURSIVE visit(_, _, _, _, _)
RECURSIVE visit_deps(_, _, _, _, _)

\* The for loop of visit over the referenced tables of one file.
visit_deps(st, tables, files, deps, seed) ==
    IF tables = <<>> THEN st
    ELSE LET f == dep_file(files, Head(tables))
         IN  Strict(LAMBDA st1 : visit_deps(st1, Tail(tables), files, deps, seed),
                    IF f # NoFile THEN visit(st, f, files, deps, seed) ELSE st)

\* A faulty visit that appends the file before it visits its dependencies.
visit_preorder(st, filename, files, deps, seed) ==
    IF filename \in st.visited THEN st
    ELSE visit_deps([visited |-> st.visited \cup {filename},
                     result |-> Append(st.result, filename)],
                    iterate(deps[filename], seed), files, deps, seed)

\* visit(filename) on the closure state st = (visited, result).
visit(st, filename, files, deps, seed) ==
    IF filename \in st.visited THEN st
    ELSE LET st1 == [st EXCEPT !.visited = @ \cup {filename}]
             st2 == visit_deps(st1, iterate(deps[filename], seed), files, deps, seed)
         IN  [st2 EXCEPT !.result = Append(@, filename)]

\* The for loop at the end of topological_sort.
RECURSIVE visit_all(_, _, _, _, _)
visit_all(st, i, files, deps, seed) ==
    IF i > Len(files) THEN st
    ELSE Strict(LAMBDA st1 : visit_all(st1, i + 1, files, deps, seed),
                visit(st, files[i], files, deps, seed))

\* A faulty sort by name: in decreasing order.
sorted_desc(S) ==
    [k \in 1..Cardinality(S) |->
        CHOOSE x \in S : Cardinality({y \in S : strLess(x, y)}) = k - 1]

\* sorted(migration_files, key=lambda f: f.name)
sort_by_name(S) == sorted(S)

\* A faulty topological_sort that leaves the files in the order of their names.
topological_sort_by_name_only(d, seed) == sort_by_name(DOMAIN d)

\* topological_sort of the files of directory d (name -> content), in a
\* process whose set iteration order is seed.
topological_sort(d, seed) ==
    Strict(LAMBDA files :
               Strict(LAMBDA deps :
                          visit_all([visited |-> {}, result |-> <<>>], 1, files,
                                    deps, seed).result,
                      dependencies(d)),
           sort_by_name(DOMAIN d))

(***************************************************************************)
(* State                                                                   *)
(***************************************************************************)
VARIABLES
    dir_exists,          \* Path(MIGRATIONS_DIR).exists()
    dir,                 \* the *.sql files of the directory: name -> content
    pc,                  \* where the runner process is
    runs,                \* number of runner processes started so far
    conn_open,           \* the psycopg2 connection is open
    statuses,            \* exit status of every process that has ended
    applied_migrations,  \* the set loaded by get_applied_migrations
    sorted_files,        \* the list returned by topological_sort
    idx,                 \* position of the loop of process_migration_files
    tracking,            \* committed rows of table applied_migrations
    commits,             \* <<file, statement>> -> number of times committed
    attempted,           \* files given to apply_migration by this process
    executed,            \* the execute calls of the last apply_migration
    halted,              \* the failure that stopped this process, if any
    runners,             \* two runner processes at work on one database
    server,              \* the workflows the n8n server holds
    cleanup,             \* the cleanup-n8n process
    requests             \* the HTTP requests cleanup-n8n has sent

\* The runner processes of the concurrent runs.
race_vars == <<runners>>

\* The n8n server and the cleanup script.
cleanup_vars == <<server, cleanup, requests>>

vars == <<dir_exists, dir, pc, runs, conn_open, statuses, applied_migrations,
          sorted_files, idx, tracking, commits, attempted, executed, halted,
          race_vars, cleanup_vars>>

\* No concurrent runner is at work.
migrate_vars == <<dir_exists, dir, pc, runs, conn_open, statuses, applied_migrations,
                  sorted_files, idx, tracking, commits, attempted, executed, halted>>

RaceIdle == runners = <<>>

\* No cleanup is at work.
CleanupIdle == server = <<>> /\ cleanup = <<>> /\ requests = <<>>

\* No file has made the run stop.
NoHalt == [file |-> NoFile, stage |-> "none", rolled_back |-> FALSE]

(***************************************************************************)
(* has_transaction_block, requires_autocommit                              *)
(***************************************************************************)
kwBEGIN == <<"B", "E", "G", "I", "N">>
kwBEGINsemi == <<"B", "E", "G", "I", "N", ";">>
kwSTART == <<"S", "T", "A", "R", "T", " ", "T", "R", "A", "N", "S", "A", "C", "T", "I", "O", "N">>
kwCOMMIT == <<"C", "O", "M", "M", "I", "T">>
kwROLLBACK == <<"R", "O", "L", "L", "B", "A", "C", "K">>
kwCREATE == <<"C", "R", "E", "A", "T", "E", " ">>

AUTOCOMMIT_STATEMENTS ==
    { <<"C", "R", "E", "A", "T", "E", " ", "D", "A", "T", "A", "B", "A", "S", "E">>,
      <<"D", "R", "O", "P", " ", "D", "A", "T", "A", "B", "A", "S", "E">>,
      <<"C", "R", "E", "A", "T", "E", " ", "T", "A", "B", "L", "E", "S", "P", "A", "C", "E">>,
      <<"D", "R", "O", "P", " ", "T", "A", "B", "L", "E", "S", "P", "A", "C", "E">>,
      <<"A", "L", "T", "E", "R", " ", "S", "Y", "S", "T", "E", "M">> }

has_transaction_block(sql_content) ==
    LET sql_upper == strip(upper(sql_content))
    IN  \/ startswith(sql_upper, kwBEGIN)
        \/ contains(sql_upper, kwBEGINsemi)
        \/ startswith(sql_upper, kwSTART)

requires_autocommit(sql_content) ==
    LET sql_upper == upper(sql_content)
    IN  \E stmt \in AUTOCOMMIT_STATEMENTS : contains(sql_upper, stmt)

(***************************************************************************)
(* The queries of apply_migration and record_migration                     *)
(***************************************************************************)
\* One cursor.execute call: the query text, the file name bound to %s (or
\* NoFile), and whether the connection is at isolation level 0 (autocommit).
Query(text, param, autocommit) ==
    [text |-> text, param |-> param, autocommit |-> autocommit]

qBEGIN == <<"B", "E", "G", "I", "N", ";">>
qCOMMIT == <<"C", "O", "M", "M", "I", "T", ";">>
qROLLBACK == <<"R", "O", "L", "L", "B", "A", "C", "K", ";">>
qINSERT ==
    <<"I", "N", "S", "E", "R", "T", " ", "I", "N", "T", "O", " ",
      "a", "p", "p", "l", "i", "e", "d", "_", "m", "i", "g", "r", "a", "t", "i", "o", "n", "s",
      " ", "(", "f", "i", "l", "e", "n", "a", "m", "e", ")", " ",
      "V", "A", "L", "U", "E", "S", " ", "(", "%", "s", ")", ";">>

\* The fragments of sql between semicolons, trimmed, the empty ones dropped:
\* the statements the autocommit loop executes, and the statements the
\* server finds in a query.
statements(sql) ==
    LET parts == split(sql, ";")
        trimmed == [i \in 1..Len(parts) |-> strip(parts[i])]
    IN  SelectSeq(trimmed, LAMBDA x : x # <<>>)

\* A faulty choice of mode: the transaction check before the autocommit check.
apply_queries_txn_first(sql) ==
    IF has_transaction_block(sql) THEN <<Query(sql, NoFile, FALSE)>>
    ELSE IF requires_autocommit(sql)
    THEN [i \in 1..Len(statements(sql)) |-> Query(statements(sql)[i], NoFile, TRUE)]
    ELSE <<Query(qBEGIN, NoFile, FALSE), Query(sql, NoFile, FALSE),
           Query(qCOMMIT, NoFile, FALSE)>>

\* The execute calls of apply_migration for a file content, in order.
apply_queries(sql) ==
    IF requires_autocommit(sql)
    THEN [i \in 1..Len(statements(sql)) |-> Query(statements(sql)[i], NoFile, TRUE)]
    ELSE IF has_transaction_block(sql) THEN <<Query(sql, NoFile, FALSE)>>
    ELSE <<Query(qBEGIN, NoFile, FALSE), Query(sql, NoFile, FALSE),
           Query(qCOMMIT, NoFile, FALSE)>>

\* The execute calls of record_migration.
record_queries(filename) ==
    <<Query(qBEGIN, NoFile, FALSE), Query(qINSERT, filename, FALSE),
      Query(qCOMMIT, NoFile, FALSE)>>

(***************************************************************************)
(* The texts the runner hands to cursor.execute                            *)
(***************************************************************************)
\* Every text the runner hands to cursor.execute: the contents, their
\* statements one by one (autocommit mode), and the runner's own queries.
QueryTexts ==
    RunnerContents
    \cup UNION {Range(statements(c)) : c \in RunnerContents}
    \cup {qBEGIN, qINSERT, qCOMMIT, qROLLBACK}

\* The statements the server finds in each of these texts.
parse == [t \in QueryTexts |-> statements(t)]

AllStatements == UNION {Range(parse[t]) : t \in QueryTexts}

\* apply_queries of each content.
queries_of == [c \in RunnerContents |-> apply_queries(c)]

(***************************************************************************)
(* The database server, as the cursor.execute calls drive it               *)
(*                                                                         *)
(* srv = [in_txn, pending, commits, tracking]: a transaction block is      *)
(* open, the effects of the statements executed and not yet committed, and *)
(* the two committed stores. A statement of file f is the effect           *)
(* <<f, i>>, i its position in statements(content of f); an INSERT into    *)
(* applied_migrations is the effect <<filename, 0>>.                       *)
(***************************************************************************)
\* What a statement is to the server: transaction control, or a statement
\* with an effect; whether it is one that cannot run inside a transaction
\* block; and whether it creates an object (a second CREATE of the same
\* object fails, other statements can run again).
statement_kind ==
    [stmt \in AllStatements |->
        [control |-> IF startswith(upper(stmt), kwBEGIN) \/ startswith(upper(stmt), kwSTART)
                     THEN "begin"
                     ELSE IF startswith(upper(stmt), kwCOMMIT) THEN "commit"
                     ELSE IF startswith(upper(stmt), kwROLLBACK) THEN "rollback"
                     ELSE "none",
         no_txn |-> requires_autocommit(stmt),
         creates |-> startswith(upper(stmt), kwCREATE)]]

\* The effect of a statement of file f: the file and the statement's place
\* in it.
effect_of(f, stmt) == <<f, CHOOSE k \in 1..Len(parse[dir[f]]) : parse[dir[f]][k] = stmt>>

\* COMMIT: the pending effects reach the committed stores.
commit_pending(srv) ==
    LET stmts == SelectSeq(srv.pending, LAMBDA e : e[2] > 0)
        rows == SelectSeq(srv.pending, LAMBDA e : e[2] = 0)
        times(e) == Cardinality({i \in 1..Len(stmts) : stmts[i] = e})
    IN  [in_txn |-> FALSE,
         pending |-> <<>>,
         commits |-> [e \in DOMAIN srv.commits |-> srv.commits[e] + times(e)],
         tracking |-> srv.tracking \o [i \in 1..Len(rows) |-> rows[i][1]]]

\* A faulty end of a transaction that keeps what it should drop.
discard_pending_committing(srv) == commit_pending(srv)

\* ROLLBACK, an error, or the end of the connection: the pending effects
\* are dropped.
discard_pending(srv) == [srv EXCEPT !.in_txn = FALSE, !.pending = <<>>]

\* A faulty tracking table whose filename column is no key.
violates_primary_key_never(srv, filename) == FALSE

\* filename VARCHAR PRIMARY KEY: the row would be a second one of its name.
violates_primary_key(srv, filename) ==
    \/ \E i \in 1..Len(srv.tracking) : srv.tracking[i] = filename
    \/ \E i \in 1..Len(srv.pending) : srv.pending[i] = <<filename, 0>>

\* The object a CREATE statement creates exists: the statement has been
\* committed, or executed in the open transaction.
already_created(srv, f, stmt) ==
    /\ f # NoFile
    /\ statement_kind[stmt].creates
    /\ \/ srv.commits[effect_of(f, stmt)] > 0
       \/ \E i \in 1..Len(srv.pending) : srv.pending[i] = effect_of(f, stmt)

\* The errors the server raises by rule: a second row of a file name, a
\* statement that cannot run inside a transaction block run inside one, and
\* the creation of an object that exists.
statement_fails(srv, f, q, stmt) ==
    \/ q.param # NoFile /\ violates_primary_key(srv, q.param)
    \/ srv.in_txn /\ statement_kind[stmt].no_txn
    \/ already_created(srv, f, stmt)

\* One statement of a query, executed without error.
exec_statement(srv, f, q, stmt) ==
    IF q.param # NoFile
    THEN [srv EXCEPT !.pending = Append(@, <<q.param, 0>>)]
    ELSE IF statement_kind[stmt].control = "begin" THEN [srv EXCEPT !.in_txn = TRUE]
    ELSE IF statement_kind[stmt].control = "commit" THEN commit_pending(srv)
    ELSE IF statement_kind[stmt].control = "rollback" THEN discard_pending(srv)
    ELSE IF f = NoFile THEN srv
    ELSE [srv EXCEPT !.pending = Append(@, effect_of(f, stmt))]

\* cursor.execute(q) while file f is applied (NoFile: a query of the runner
\* itself). Statement number fail_at raises (0: none does, but for the
\* server's rules); outside a transaction block the query commits as it
\* ends. The result is the server and whether the call returned.
\* psycopg2.connect gives a connection that is not in autocommit mode: the
\* driver opens a transaction before a query unless one is open, so that a
\* query is outside a transaction block only under isolation level 0 or
\* after a COMMIT of its own.
RECURSIVE exec_from(_, _, _, _, _, _)
exec_from(srv, f, q, stmts, k, fail_at) ==
    IF k > Len(stmts)
    THEN [srv |-> IF srv.in_txn THEN srv ELSE commit_pending(srv), ok |-> TRUE]
    ELSE IF k = fail_at \/ statement_fails(srv, f, q, stmts[k])
    THEN [srv |-> discard_pending(srv), ok |-> FALSE]
    ELSE Strict(LAMBDA srv1 : exec_from(srv1, f, q, stmts, k + 1, fail_at),
                exec_statement(srv, f, q, stmts[k]))

execute(srv, f, q, fail_at) ==
    exec_from(IF q.autocommit THEN srv ELSE [srv EXCEPT !.in_txn = TRUE],
              f, q, parse[q.text], 1, fail_at)

\* A sequence of execute calls, stopped by the first that raises. fault is
\* [call, stmt]: statement stmt of call number call raises. The result is
\* the server, whether every call returned, and the calls made.
RECURSIVE execute_all(_, _, _, _, _)
execute_all(srv, f, qs, k, fault) ==
    IF k > Len(qs) THEN [srv |-> srv, ok |-> TRUE, calls |-> qs]
    ELSE Strict(LAMBDA r :
                    IF r.ok THEN execute_all(r.srv, f, qs, k + 1, fault)
                    ELSE [srv |-> r.srv, ok |-> FALSE, calls |-> SubSeq(qs, 1, k)],
                execute(srv, f, qs[k], IF fault.call = k THEN fault.stmt ELSE 0))

NoFault == [stage |-> "none", call |-> 0, stmt |-> 0]

\* The places where the database can make the processing of a file fail.
Faults(filename) ==
    LET aq == queries_of[dir[filename]]
    IN  {NoFault}
        \cup UNION {{[stage |-> "apply", call |-> k, stmt |-> j] :
                        j \in 1..Len(parse[aq[k].text])} : k \in 1..Len(aq)}
        \cup {[stage |-> "record", call |-> k, stmt |-> 1] : k \in 1..3}

\* apply_migration(cursor, migration_file). set_isolation_level, called
\* before and after the statements of the autocommit mode, ends the open
\* transaction with a rollback.
apply_migration(srv, filename, fault) ==
    LET qs == queries_of[dir[filename]]
        flt == IF fault.stage = "apply" THEN fault ELSE NoFault
    IN  IF qs[1].autocommit
        THEN Strict(LAMBDA r : [r EXCEPT !.srv = discard_pending(@)],
                    execute_all(discard_pending(srv), filename, qs, 1, flt))
        ELSE execute_all(srv, filename, qs, 1, flt)

\* record_migration(cursor, filename)
record_migration(srv, filename, fault) ==
    execute_all(srv, NoFile, record_queries(filename), 1,
                IF fault.stage = "record" THEN fault ELSE NoFault)

\* A faulty loop body that records the file whether or not it was applied.
try_migration_record_always(srv, filename, fault) ==
    Strict(LAMBDA a :
               Strict(LAMBDA r :
                          [srv |-> discard_pending(r.srv), calls |-> a.calls,
                           stage |-> IF r.ok THEN "none" ELSE "record"],
                      record_migration(discard_pending(a.srv), filename, fault)),
           apply_migration(srv, filename, fault))

\* The try block of process_migration_files for one file, with the except
\* block's ROLLBACK (or, should that fail, the end of the connection at
\* exit) when it raises. stage is where it raised: apply, record or none.
try_migration(srv, filename, fault) ==
    Strict(LAMBDA a :
               IF ~a.ok
               THEN [srv |-> discard_pending(a.srv), calls |-> a.calls, stage |-> "apply"]
               ELSE Strict(LAMBDA r :
                               IF r.ok
                               THEN [srv |-> r.srv, calls |-> a.calls, stage |-> "none"]
                               ELSE [srv |-> discard_pending(r.srv), calls |-> a.calls,
                                     stage |-> "record"],
                           record_migration(a.srv, filename, fault)),
           apply_migration(srv, filename, fault))

(***************************************************************************)
(* SpecSort: topological_sort alone, on every directory of SortDirs        *)
(***************************************************************************)
InitProcess ==
    /\ pc = "idle"
    /\ runs = 0
    /\ conn_open = FALSE
    /\ statuses = <<>>
    /\ applied_migrations = {}
    /\ sorted_files = <<>>
    /\ idx = 0
    /\ tracking = <<>>
    /\ attempted = <<>>
    /\ executed = <<>>
    /\ halted = NoHalt

InitSort ==
    /\ dir_exists = TRUE
    /\ dir \in SortDirs
    /\ commits = <<>>
    /\ InitProcess
    /\ RaceIdle
    /\ CleanupIdle

\* sorted_files = topological_sort(migration_files)
SortFiles ==
    /\ pc = "idle"
    /\ \E seed \in Seeds(dir) : sorted_files' = topological_sort(dir, seed)
    /\ pc' = "sorted"
    /\ UNCHANGED <<dir_exists, dir, runs, conn_open, statuses, applied_migrations,
                   idx, tracking, commits, attempted, executed, halted>>
    /\ UNCHANGED <<race_vars, cleanup_vars>>

NextSort == SortFiles

SpecSort == InitSort /\ [][NextSort]_vars

(***************************************************************************)
(* Directories given to the runner                                         *)
(***************************************************************************)
RunnerNames == {n0, nA, nB}

RunnerDirs == UNION {[S -> RunnerContents] : S \in SUBSET RunnerNames}

\* The statements of the files of a directory.
Effects(d) ==
    UNION {{<<f, i>> : i \in 1..Len(parse[d[f]])} : f \in DOMAIN d}

(***************************************************************************)
(* Spec: successive runs of the runner against one database                *)
(***************************************************************************)
Init ==
    /\ dir_exists \in BOOLEAN
    /\ dir \in RunnerDirs
    /\ dir_exists = FALSE => dir = <<>>
    /\ commits = [e \in Effects(dir) |-> 0]
    /\ InitProcess
    /\ RaceIdle
    /\ CleanupIdle

\* A faulty end of the process that leaves the connection as it is.
Exit_without_close(code) ==
    /\ pc' = "exited"
    /\ UNCHANGED conn_open
    /\ statuses' = Append(statuses, code)

\* The process ends: the finally blocks close the cursor and the connection.
Exit(code) ==
    /\ pc' = "exited"
    /\ conn_open' = FALSE
    /\ statuses' = Append(statuses, code)

\* A faulty handler that logs the error and lets the process end normally.
database_error_swallowed(stage) ==
    /\ halted' = [file |-> NoFile, stage |-> stage, rolled_back |-> FALSE]
    /\ Exit(0)

\* except psycopg2.Error of database_connection: the error is logged and
\* the process ends with sys.exit(1). stage is where the error was raised.
database_error(stage) ==
    /\ halted' = [file |-> NoFile, stage |-> stage, rolled_back |-> FALSE]
    /\ Exit(1)

\* A process starts: database_connection reads DATABASE_URL and ends the
\* process when it is not set.
Start ==
    /\ pc \in {"idle", "exited"}
    /\ runs < MaxRuns
    /\ runs' = runs + 1
    /\ applied_migrations' = {}
    /\ sorted_files' = <<>>
    /\ idx' = 0
    /\ attempted' = <<>>
    /\ executed' = <<>>
    /\ \E url_set \in BOOLEAN :
          IF url_set
          THEN pc' = "configured" /\ halted' = NoHalt /\ UNCHANGED <<conn_open, statuses>>
          ELSE /\ halted' = [file |-> NoFile, stage |-> "config", rolled_back |-> FALSE]
               /\ Exit(1)
    /\ UNCHANGED <<dir_exists, dir, tracking, commits>>
    /\ UNCHANGED <<race_vars, cleanup_vars>>

\* psycopg2.connect, up to the yield of database_connection.
Connect ==
    /\ pc = "configured"
    /\ \E connected \in BOOLEAN :
          IF connected
          THEN pc' = "connected" /\ conn_open' = TRUE /\ UNCHANGED <<statuses, halted>>
          ELSE database_error("connect")
    /\ UNCHANGED <<dir_exists, dir, runs, applied_migrations, sorted_files, idx,
                   tracking, commits, attempted, executed>>
    /\ UNCHANGED <<race_vars, cleanup_vars>>

\* create_applied_migrations_table; a psycopg2.Error ends the process.
EnsureTable ==
    /\ pc = "connected"
    /\ \E ok \in BOOLEAN :
          IF ok
          THEN pc' = "ensured" /\ UNCHANGED <<conn_open, statuses, halted>>
          ELSE database_error("table")
    /\ UNCHANGED <<dir_exists, dir, runs, applied_migrations, sorted_files, idx,
                   tracking, commits, attempted, executed>>
    /\ UNCHANGED <<race_vars, cleanup_vars>>

\* A faulty query that finds no row.
get_applied_migrations_none(rows) == {}

\* get_applied_migrations: the file names of the rows of the table.
get_applied_migrations(rows) == Range(rows)

\* get_applied_migrations; a psycopg2.Error ends the process.
LoadApplied ==
    /\ pc = "ensured"
    /\ \E ok \in BOOLEAN :
          IF ok
          THEN /\ applied_migrations' = get_applied_migrations(tracking)
               /\ pc' = "loaded"
               /\ UNCHANGED <<conn_open, statuses, halted>>
          ELSE database_error("query") /\ UNCHANGED applied_migrations
    /\ UNCHANGED <<dir_exists, dir, runs, sorted_files, idx, tracking, commits,
                   attempted, executed>>
    /\ UNCHANGED <<race_vars, cleanup_vars>>

\* run_migrations up to the call of process_migration_files: nothing to
\* process when the directory is missing or holds no *.sql file.
RunMigrations ==
    /\ pc = "loaded"
    /\ IF ~dir_exists \/ DOMAIN dir = {}
       THEN sorted_files' = <<>>
       ELSE \E seed \in Seeds(dir) : sorted_files' = topological_sort(dir, seed)
    /\ idx' = 1
    /\ pc' = "processing"
    /\ UNCHANGED <<dir_exists, dir, runs, conn_open, statuses, applied_migrations,
                   tracking, commits, attempted, executed, halted>>
    /\ UNCHANGED <<race_vars, cleanup_vars>>

\* A faulty test of the loop that skips nothing.
already_applied_never(filename) == FALSE

\* if filename in applied_migrations
already_applied(filename) == filename \in applied_migrations

\* One round of the loop of process_migration_files on an applied file.
SkipApplied ==
    /\ pc = "processing"
    /\ idx <= Len(sorted_files)
    /\ already_applied(sorted_files[idx])
    /\ idx' = idx + 1
    /\ UNCHANGED <<dir_exists, dir, pc, runs, conn_open, statuses, applied_migrations,
                   sorted_files, tracking, commits, attempted, executed, halted>>
    /\ UNCHANGED <<race_vars, cleanup_vars>>

\* A faulty except block that logs the failure and lets the loop go on.
after_failure_continue(filename, stage, rollback_ok) ==
    /\ halted' = [file |-> filename, stage |-> stage, rolled_back |-> rollback_ok]
    /\ idx' = idx + 1
    /\ UNCHANGED <<pc, conn_open, statuses>>

\* The except block of process_migration_files: the ROLLBACK, which may
\* itself fail, and sys.exit(1).
after_failure(filename, stage, rollback_ok) ==
    /\ halted' = [file |-> filename, stage |-> stage, rolled_back |-> rollback_ok]
    /\ Exit(1)
    /\ UNCHANGED idx

\* One round of the loop of process_migration_files on a file not applied:
\* apply_migration, record_migration and, when one of them raises, ROLLBACK
\* and sys.exit(1).
ApplyFile ==
    /\ pc = "processing"
    /\ idx <= Len(sorted_files)
    /\ ~already_applied(sorted_files[idx])
    /\ \E fault \in Faults(sorted_files[idx]), rollback_ok \in BOOLEAN :
       \E r \in {try_migration([in_txn |-> FALSE, pending |-> <<>>,
                                commits |-> commits, tracking |-> tracking],
                               sorted_files[idx], fault)} :
          LET filename == sorted_files[idx]
          IN  /\ attempted' = Append(attempted, filename)
              /\ executed' = r.calls
              /\ commits' = r.srv.commits
              /\ tracking' = r.srv.tracking
              /\ IF r.stage = "none"
                 THEN /\ idx' = idx + 1
                      /\ rollback_ok
                      /\ UNCHANGED <<pc, conn_open, statuses, halted>>
                 ELSE after_failure(filename, r.stage, rollback_ok)
    /\ UNCHANGED <<dir_exists, dir, runs, applied_migrations, sorted_files>>
    /\ UNCHANGED <<race_vars, cleanup_vars>>

\* The loop is over: main logs the completion and the process ends with 0.
Finish ==
    /\ pc = "processing"
    /\ idx > Len(sorted_files)
    /\ Exit(0)
    /\ UNCHANGED <<dir_exists, dir, runs, applied_migrations, sorted_files, idx,
                   tracking, commits, attempted, executed, halted>>
    /\ UNCHANGED <<race_vars, cleanup_vars>>

Next ==
    \/ Start
    \/ Connect
    \/ EnsureTable
    \/ LoadApplied
    \/ RunMigrations
    \/ SkipApplied
    \/ ApplyFile
    \/ Finish

Spec == Init /\ [][Next]_vars

(***************************************************************************)
(* SpecRace: two runner processes at work on one database at once, each    *)
(* cursor.execute call a step of its own                                   *)
(***************************************************************************)
Procs == {1, 2}

\* The directories of the concurrent runs: at most MaxRaceFiles files.
RaceDirs ==
    UNION {[S -> RunnerContents] :
              S \in {X \in SUBSET RunnerNames : Cardinality(X) \in 1..MaxRaceFiles}}

\* The execute calls of one round of the loop of process_migration_files:
\* those of apply_migration, then those of record_migration.
round_calls(filename) == queries_of[dir[filename]] \o record_queries(filename)

InitRace ==
    /\ dir_exists = TRUE
    /\ dir \in RaceDirs
    /\ commits = [e \in Effects(dir) |-> 0]
    /\ InitProcess
    /\ CleanupIdle
    /\ runners = [p \in Procs |->
                     [pc |-> "start", applied |-> {}, order |-> <<>>, idx |-> 0,
                      call |-> 1, in_txn |-> FALSE, pending |-> <<>>, status |-> -1,
                      stage |-> "none", inserts |-> <<>>, recorded |-> {}]]

\* main up to the loop of process_migration_files: the applied set as the
\* table holds it now, and the order of the files.
RaceStart(p) ==
    /\ runners[p].pc = "start"
    /\ \E seed \in Seeds(dir) :
          runners' = [runners EXCEPT ![p] =
                         [@ EXCEPT !.pc = "processing",
                                   !.applied = get_applied_migrations(tracking),
                                   !.order = topological_sort(dir, seed),
                                   !.idx = 1]]
    /\ UNCHANGED <<dir_exists, dir, pc, runs, conn_open, statuses, applied_migrations,
                   sorted_files, idx, tracking, commits, attempted, executed, halted,
                   cleanup_vars>>

\* One round of the loop on a file of the applied set.
RaceSkip(p) ==
    /\ runners[p].pc = "processing"
    /\ runners[p].idx <= Len(runners[p].order)
    /\ runners[p].order[runners[p].idx] \in runners[p].applied
    /\ runners' = [runners EXCEPT ![p].idx = @ + 1]
    /\ UNCHANGED <<dir_exists, dir, pc, runs, conn_open, statuses, applied_migrations,
                   sorted_files, idx, tracking, commits, attempted, executed, halted,
                   cleanup_vars>>

\* The INSERT of a row waits while another transaction holds an uncommitted
\* row of the same file name.
blocked(p, q) ==
    /\ q.param # NoFile
    /\ \E o \in Procs \ {p} :
          \E i \in 1..Len(runners[o].pending) : runners[o].pending[i] = <<q.param, 0>>

\* One cursor.execute call of a round of the loop on a file not in the
\* applied set. When the call raises, for a rule of the server or for a
\* fault of the database (fail_at), the except block rolls back and the
\* process ends with sys.exit(1).
RaceExecute(p) ==
    /\ runners[p].pc = "processing"
    /\ runners[p].idx <= Len(runners[p].order)
    /\ runners[p].order[runners[p].idx] \notin runners[p].applied
    /\ LET r == runners[p]
           f == r.order[r.idx]
           qs == round_calls(f)
           n_apply == Len(queries_of[dir[f]])
           k == r.call
           q == qs[k]
           first_auto == q.autocommit /\ k = 1
           last_auto == q.autocommit /\ k = n_apply
           srv0 == [in_txn |-> IF first_auto THEN FALSE ELSE r.in_txn,
                    pending |-> IF first_auto THEN <<>> ELSE r.pending,
                    commits |-> commits,
                    tracking |-> tracking]
           tried == IF q.param # NoFile THEN Append(r.inserts, f) ELSE r.inserts
       IN  /\ ~blocked(p, q)
           /\ \E fail_at \in {0, 1} :
              \E res \in {execute(srv0, IF k <= n_apply THEN f ELSE NoFile, q, fail_at)} :
                 /\ commits' = res.srv.commits
                 /\ tracking' = res.srv.tracking
                 /\ runners' = [runners EXCEPT ![p] =
                       IF res.ok
                       THEN [r EXCEPT
                               !.in_txn = IF last_auto THEN FALSE ELSE res.srv.in_txn,
                               !.pending = IF last_auto THEN <<>> ELSE res.srv.pending,
                               !.call = IF k = Len(qs) THEN 1 ELSE k + 1,
                               !.idx = IF k = Len(qs) THEN @ + 1 ELSE @,
                               !.inserts = tried,
                               !.recorded = IF k = Len(qs) THEN @ \cup {f} ELSE @]
                       ELSE [r EXCEPT
                               !.pc = "exited",
                               !.status = 1,
                               !.stage = IF k <= n_apply THEN "apply" ELSE "record",
                               !.in_txn = FALSE,
                               !.pending = <<>>,
                               !.inserts = tried]]
    /\ UNCHANGED <<dir_exists, dir, pc, runs, conn_open, statuses, applied_migrations,
                   sorted_files, idx, attempted, executed, halted, cleanup_vars>>

\* The loop is over: the process ends with status 0.
RaceFinish(p) ==
    /\ runners[p].pc = "processing"
    /\ runners[p].idx > Len(runners[p].order)
    /\ runners' = [runners EXCEPT ![p] =
                      [@ EXCEPT !.pc = "exited", !.status = 0, !.in_txn = FALSE,
                                !.pending = <<>>]]
    /\ UNCHANGED <<dir_exists, dir, pc, runs, conn_open, statuses, applied_migrations,
                   sorted_files, idx, tracking, commits, attempted, executed, halted,
                   cleanup_vars>>

NextRace ==
    \/ \E p \in Procs : RaceStart(p)
    \/ \E p \in Procs : RaceSkip(p)
    \/ \E p \in Procs : RaceExecute(p)
    \/ \E p \in Procs : RaceFinish(p)

SpecRace == InitRace /\ [][NextRace]_vars

(***************************************************************************)
(* SpecCleanup: one invocation of cleanup-n8n against an n8n instance      *)
(***************************************************************************)
CredentialIds == {"k1", "k2"}

\* A node without a 'credentials' entry.
NoCredentials == "-"

\* The 'active' entry of a workflow: True, False, or no such key.
ActiveValues == {"true", "false", "absent"}

\* The workflow lists of an n8n instance: ids 1..n, each workflow with one
\* node.
WorkflowLists ==
    UNION {{[i \in 1..n |-> [id |-> i, active |-> ws[i].active,
                             nodes |-> <<[credentials |-> ws[i].credentials]>>]] :
               ws \in [1..n -> [active : ActiveValues,
                                credentials : CredentialIds \cup {NoCredentials}]]} :
           n \in 0..MaxWorkflows}

\* The outcomes of api_request: a JSON body ("ok"); None, for 204, 404 or an
\* empty body ("none"); N8NAPIError, for another HTTP error status or a
\* URLError ("api_error"); an exception api_request does not catch, such as
\* the ValueError of json.loads on a body that is no JSON or the
\* TimeoutError of a response that does not arrive in time ("escape").
Responses == {"ok", "none", "api_error", "escape"}

\* get_all_workflows on a response that raised nothing.
get_all_workflows(srv, response) ==
    IF response = "ok" THEN srv.workflows ELSE <<>>

\* w.get('active', False)
is_active(w) == w.active = "true"

extract_credential_ids(workflows) ==
    UNION {{workflows[i].nodes[j].credentials : j \in 1..Len(workflows[i].nodes)} :
              i \in 1..Len(workflows)} \ {NoCredentials}

\* The lines typed at the prompt.
Answers ==
    {<<"y">>, <<" ", "Y", "e", "s", " ">>, <<"n">>, <<"N", "O">>, <<>>, <<" ">>,
     <<"y", "e", "a", "h">>}

\* What input() does: it returns a line, or raises EOFError or
\* KeyboardInterrupt.
Inputs ==
    [kind : {"line"}, text : Answers]
        \cup {[kind |-> "eof", text |-> <<>>], [kind |-> "interrupt", text |-> <<>>]}

\* confirm_action on an input that is no KeyboardInterrupt.
confirm_action(input, default) ==
    IF input.kind = "eof" THEN default
    ELSE LET response == lower(strip(input.text))
         IN  IF response = <<>> THEN default
             ELSE response \in {<<"y">>, <<"y", "e", "s">>}

\* The condition of main under which the prompt is shown.
needs_confirmation(include_active, dry_run, yes, workflows) ==
    /\ include_active
    /\ ~dry_run
    /\ ~yes
    /\ Cardinality({i \in 1..Len(workflows) : is_active(workflows[i])}) > 0

\* A faulty choice that takes every workflow whatever the flag.
to_delete_all(workflows, include_active) == workflows

\* The workflows delete_workflows chooses.
to_delete(workflows, include_active) ==
    IF include_active THEN workflows
    ELSE SelectSeq(workflows, LAMBDA w : ~is_active(w))

\* A faulty loop body that sends the request in a dry run too.
sends_request_always(dry_run) == TRUE

\* The loop bodies of delete_workflows and delete_credentials send a DELETE
\* request unless the run is a dry run.
sends_request(dry_run) == ~dry_run

Request(method, path) == [method |-> method, path |-> path]

InitCleanup ==
    /\ dir_exists = FALSE
    /\ dir = <<>>
    /\ commits = <<>>
    /\ InitProcess
    /\ RaceIdle
    /\ server \in [workflows : WorkflowLists, credentials : {CredentialIds}]
    /\ requests = <<>>
    /\ cleanup \in [pc : {"start"},
                    include_active : BOOLEAN, dry_run : BOOLEAN, yes : BOOLEAN,
                    workflows : {<<>>}, credential_ids : {{}},
                    confirmed : {"not_asked"},
                    to_delete : {<<>>}, i : {0},
                    deleted_workflows : {0}, failed_workflows : {0},
                    done_credentials : {{}},
                    deleted_credentials : {0}, failed_credentials : {0},
                    status : {-1}]

\* The process ends with the given exit status.
cleanup_exit(c, code) == [c EXCEPT !.pc = "exited", !.status = code]

\* main up to the prompt: the environment, the first fetch of the
\* workflows and the credential ids taken from it.
MainFetch ==
    /\ cleanup.pc = "start"
    /\ \E env_ok \in BOOLEAN, response \in Responses :
          IF ~env_ok
          THEN /\ cleanup' = cleanup_exit(cleanup, 1)
               /\ UNCHANGED requests
          ELSE /\ requests' = Append(requests, Request("GET", <<"workflows">>))
               /\ IF response \in {"api_error", "escape"}
                  THEN cleanup' = cleanup_exit(cleanup, 1)
                  ELSE LET ws == get_all_workflows(server, response)
                       IN  cleanup' =
                             [cleanup EXCEPT
                                !.workflows = ws,
                                !.credential_ids = extract_credential_ids(ws),
                                !.pc = IF needs_confirmation(cleanup.include_active,
                                                             cleanup.dry_run,
                                                             cleanup.yes, ws)
                                       THEN "confirm" ELSE "delete_workflows"]
    /\ UNCHANGED <<server, migrate_vars, race_vars>>

\* The prompt of main.
Confirm ==
    /\ cleanup.pc = "confirm"
    /\ \E input \in Inputs :
          IF input.kind = "interrupt"
          THEN cleanup' = cleanup_exit([cleanup EXCEPT !.confirmed = "interrupted"], 130)
          ELSE IF confirm_action(input, FALSE)
               THEN cleanup' = [cleanup EXCEPT !.confirmed = "yes",
                                               !.pc = "delete_workflows"]
               ELSE cleanup' = cleanup_exit([cleanup EXCEPT !.confirmed = "no"], 0)
    /\ UNCHANGED <<server, requests, migrate_vars, race_vars>>

\* delete_workflows up to its loop: the second fetch and the choice of the
\* workflows to delete.
FetchAgain ==
    /\ cleanup.pc = "delete_workflows"
    /\ requests' = Append(requests, Request("GET", <<"workflows">>))
    /\ \E response \in Responses :
          IF response \in {"api_error", "escape"}
          THEN cleanup' = cleanup_exit(cleanup, 1)
          ELSE LET chosen == to_delete(get_all_workflows(server, response),
                                       cleanup.include_active)
               IN  cleanup' = [cleanup EXCEPT
                                  !.to_delete = chosen,
                                  !.i = 1,
                                  !.pc = IF chosen = <<>> THEN "credentials"
                                         ELSE "deleting"]
    /\ UNCHANGED <<server, migrate_vars, race_vars>>

\* One round of the loop of delete_workflows.
DeleteWorkflow ==
    /\ cleanup.pc = "deleting"
    /\ LET w == cleanup.to_delete[cleanup.i]
           next == [cleanup EXCEPT
                      !.i = @ + 1,
                      !.pc = IF cleanup.i = Len(cleanup.to_delete) THEN "credentials"
                             ELSE "deleting"]
       IN  IF ~sends_request(cleanup.dry_run)
           THEN /\ cleanup' = [next EXCEPT !.deleted_workflows = @ + 1]
                /\ UNCHANGED <<server, requests>>
           ELSE /\ requests' = Append(requests, Request("DELETE", <<"workflows", w.id>>))
                /\ \E response \in Responses :
                      /\ server' =
                           IF response = "ok"
                           THEN [server EXCEPT !.workflows =
                                    SelectSeq(@, LAMBDA x : x.id # w.id)]
                           ELSE server
                      /\ cleanup' =
                           CASE response \in {"ok", "none"} ->
                                    [next EXCEPT !.deleted_workflows = @ + 1]
                             [] response = "api_error" ->
                                    [next EXCEPT !.failed_workflows = @ + 1]
                             [] response = "escape" -> cleanup_exit(cleanup, 1)
    /\ UNCHANGED <<migrate_vars, race_vars>>

\* One round of the loop of delete_credentials; the loop meets the ids of
\* the set in an order of its own.
DeleteCredential ==
    /\ cleanup.pc = "credentials"
    /\ \E cred_id \in cleanup.credential_ids \ cleanup.done_credentials :
          LET next == [cleanup EXCEPT !.done_credentials = @ \cup {cred_id}]
          IN  IF ~sends_request(cleanup.dry_run)
              THEN /\ cleanup' = [next EXCEPT !.deleted_credentials = @ + 1]
                   /\ UNCHANGED <<server, requests>>
              ELSE /\ requests' =
                         Append(requests, Request("DELETE", <<"credentials", cred_id>>))
                   /\ \E response \in Responses :
                         /\ server' =
                              IF response = "ok"
                              THEN [server EXCEPT !.credentials = @ \ {cred_id}]
                              ELSE server
                         /\ cleanup' =
                              CASE response \in {"ok", "none"} ->
                                       [next EXCEPT !.deleted_credentials = @ + 1]
                                [] response = "api_error" ->
                                       [next EXCEPT !.failed_credentials = @ + 1]
                                [] response = "escape" -> cleanup_exit(cleanup, 1)
    /\ UNCHANGED <<migrate_vars, race_vars>>

\* The summary of main and the exit status.
Summary ==
    /\ cleanup.pc = "credentials"
    /\ cleanup.credential_ids \ cleanup.done_credentials = {}
    /\ cleanup' =
          [cleanup EXCEPT
             !.pc = "done",
             !.status = IF ~cleanup.dry_run
                           /\ cleanup.failed_workflows + cleanup.failed_credentials > 0
                        THEN 1 ELSE 0]
    /\ UNCHANGED <<server, requests, migrate_vars, race_vars>>

NextCleanup ==
    \/ MainFetch
    \/ Confirm
    \/ FetchAgain
    \/ DeleteWorkflow
    \/ DeleteCredential
    \/ Summary

SpecCleanup == InitCleanup /\ [][NextCleanup]_vars

(***************************************************************************)
(* Properties of topological_sort (checked under SpecSort)                 *)
(***************************************************************************)
\* File g is the prefix-match resolution of table name t among the files of
\* the directory: its name starts with t and no file with that property
\* sorts before it.
Resolves(t, g) ==
    /\ g \in DOMAIN dir
    /\ startswith(g, t)
    /\ \A h \in DOMAIN dir : startswith(h, t) => ~strLess(h, g)

\* File f depends on file g: g resolves a table that f references.
DependsOn(f, g) ==
    /\ f \in DOMAIN dir
    /\ \E t \in references_of[dir[f]] : Resolves(t, g)

\* f depends on g through a chain of one or more dependencies.
RECURSIVE ReachesWithin(_, _, _)
ReachesWithin(f, g, n) ==
    \/ DependsOn(f, g)
    \/ /\ n > 1
       /\ \E h \in DOMAIN dir : DependsOn(f, h) /\ ReachesWithin(h, g, n - 1)

DependsTransitively(f, g) == ReachesWithin(f, g, Cardinality(DOMAIN dir))

\* x comes strictly before y in the computed order.
Before(x, y) ==
    \E i, j \in 1..Len(sorted_files) :
        i < j /\ sorted_files[i] = x /\ sorted_files[j] = y

NoResolvableDependency(f) == \A g \in DOMAIN dir : ~DependsOn(f, g)

IsDependency(g) == \E f \in DOMAIN dir : DependsOn(f, g)

\* C3 as stated: every resolved dependency of a file comes strictly before it.
C3_DependencyFirst ==
    pc = "sorted" =>
        \A f, g \in DOMAIN dir : DependsOn(f, g) => Before(g, f)

\* C3 as amended: every resolved dependency g of a file f comes strictly
\* before f, unless g itself depends on f, directly or through other files
\* (a reference cycle, a self-reference included).
C3_DependencyFirstUnlessCycle ==
    pc = "sorted" =>
        \A f, g \in DOMAIN dir :
            (DependsOn(f, g) /\ ~DependsTransitively(g, f)) => Before(g, f)

\* C3 witness: a_table.sql references b, b_table.sql does not depend on it,
\* and the sort has moved b_table.sql in front of a_table.sql.
C3_Witness ==
    /\ pc = "sorted"
    /\ DependsOn(nA, nB)
    /\ ~DependsTransitively(nB, nA)
    /\ Before(nB, nA)

\* C6 as stated: the result holds every input file exactly once and nothing
\* else, and the same input gives the same sequence in every process.
C6_CycleTolerantAndDeterministic ==
    pc = "sorted" =>
        /\ Len(sorted_files) = Cardinality(DOMAIN dir)
        /\ Range(sorted_files) = DOMAIN dir
        /\ \A seed \in Seeds(dir) : topological_sort(dir, seed) = sorted_files

\* C7 as stated: two files without resolvable dependency keep their order
\* by name.
C7_IndependentFilesKeepOrder ==
    pc = "sorted" =>
        \A x, y \in DOMAIN dir :
            (NoResolvableDependency(x) /\ NoResolvableDependency(y) /\ strLess(x, y))
                => Before(x, y)

\* C7 as amended: two files x and y without resolvable dependency keep their
\* order by name when the later one, y, is not itself the resolution of a
\* reference of some input file.
C7_IndependentFilesKeepOrderUnlessPulled ==
    pc = "sorted" =>
        \A x, y \in DOMAIN dir :
            (/\ NoResolvableDependency(x)
             /\ NoResolvableDependency(y)
             /\ ~IsDependency(y)
             /\ strLess(x, y)) => Before(x, y)

\* C7 witness: the sort has reordered the files, and two files without
\* resolvable dependency, the later one not a dependency, are in it in
\* their order by name.
C7_Witness ==
    /\ pc = "sorted"
    /\ sorted_files # sorted(DOMAIN dir)
    /\ \E x, y \in DOMAIN dir :
          /\ NoResolvableDependency(x)
          /\ NoResolvableDependency(y)
          /\ ~IsDependency(y)
          /\ strLess(x, y)
          /\ Before(x, y)

\* No file references a table that resolves to another input file.
NoCrossReferences == \A f, g \in DOMAIN dir : DependsOn(f, g) => f = g

\* C8: without cross-references the computed order is the files in
\* increasing order of name.
C8_LexicographicFallback ==
    (pc = "sorted" /\ NoCrossReferences) =>
        /\ Len(sorted_files) = Cardinality(DOMAIN dir)
        /\ Range(sorted_files) = DOMAIN dir
        /\ \A i, j \in 1..Len(sorted_files) :
              i < j => strLess(sorted_files[i], sorted_files[j])

\* C8 witness: three files sorted without cross-references, one of them
\* with a reference that resolves to no file and one that references itself.
C8_Witness ==
    /\ pc = "sorted"
    /\ NoCrossReferences
    /\ Len(sorted_files) = 3
    /\ \E f \in DOMAIN dir : DependsOn(f, f)
    /\ \E f \in DOMAIN dir :
          \E t \in references_of[dir[f]] : \A g \in DOMAIN dir : ~Resolves(t, g)


(***************************************************************************)
(* Properties of the runner (checked under Spec)                           *)
(***************************************************************************)
Last(s) == s[Len(s)]

\* The tracking table holds a row of file f.
Recorded(f) == \E i \in 1..Len(tracking) : tracking[i] = f

\* The number of rows of file f in the tracking table.
Rows(f) == Cardinality({i \in 1..Len(tracking) : tracking[i] = f})

IsPrefix(s, t) == Len(s) <= Len(t) /\ \A i \in 1..Len(s) : s[i] = t[i]

\* C1: when apply_migration raises on file k of the order, the process has
\* ended with a non-zero status, every file before k has a tracking row,
\* file k has none, file k is the last file attempted, and no file after k
\* was attempted or recorded by this run.
C1_HaltOnFailure ==
    halted.stage = "apply" =>
        /\ pc = "exited"
        /\ Last(statuses) # 0
        /\ idx \in 1..Len(sorted_files)
        /\ sorted_files[idx] = halted.file
        /\ \A i \in 1..(idx - 1) : Recorded(sorted_files[i])
        /\ ~Recorded(halted.file)
        /\ Last(attempted) = halted.file
        /\ \A j \in (idx + 1)..Len(sorted_files) :
              /\ \A i \in 1..Len(attempted) : attempted[i] # sorted_files[j]
              /\ Recorded(sorted_files[j]) => sorted_files[j] \in applied_migrations

\* C1 witness: three files none of which was applied, the second of which
\* raised on application after the first was applied and recorded.
C1_Witness ==
    /\ halted.stage = "apply"
    /\ applied_migrations = {}
    /\ Len(sorted_files) = 3
    /\ idx = 2
    /\ attempted = <<sorted_files[1], sorted_files[2]>>
    /\ tracking = <<sorted_files[1]>>

\* The process of this run follows one that ended with status 0.
AfterCleanRun ==
    /\ runs >= 2
    /\ pc \notin {"idle", "exited"}
    /\ Len(statuses) = runs - 1
    /\ Last(statuses) = 0

\* C2: in a run that follows a run ended without failure, every file of
\* the order is in the applied set, and no step applies a file, commits a
\* statement or adds a tracking row.
C2_Idempotence ==
    [][AfterCleanRun =>
          /\ pc = "processing" => Range(sorted_files) \subseteq applied_migrations
          /\ attempted' = <<>>
          /\ tracking' = tracking
          /\ commits' = commits]_vars

\* C2 witness: a second run has ended with status 0 after a first that
\* applied and recorded two files, and has attempted none.
C2_Witness ==
    /\ runs = 2
    /\ statuses = <<0, 0>>
    /\ Len(sorted_files) >= 2
    /\ Range(sorted_files) \subseteq Range(tracking)
    /\ attempted = <<>>

\* C4: no statement of a migration file is committed more than once.
C4_CommittedAtMostOnce == \A e \in DOMAIN commits : commits[e] <= 1

\* The statements of file f other than transaction control.
EffectStatements(f) ==
    {i \in 1..Len(statements(dir[f])) :
        LET u == upper(statements(dir[f])[i])
        IN  ~(startswith(u, kwBEGIN) \/ startswith(u, kwSTART) \/ startswith(u, kwCOMMIT))}

\* Each file name has at most one row, and a file with a row has each of
\* its statements committed.
TrackingTableSound ==
    \A f \in Range(tracking) :
        /\ Rows(f) = 1
        /\ f \in DOMAIN dir
        /\ \A i \in EffectStatements(f) : commits[<<f, i>>] >= 1

\* C5: in every state each file name has at most one tracking row and a
\* recorded file has all its statements committed; every step leaves the
\* existing rows as they are and at most appends rows.
C5_TrackingTableInvariant ==
    /\ []TrackingTableSound
    /\ [][IsPrefix(tracking, tracking')]_vars

\* C5 witness: a second run has appended the row of a file it applied after
\* the row written by the first run.
C5_Witness ==
    /\ runs = 2
    /\ applied_migrations # {}
    /\ attempted # <<>>
    /\ Len(tracking) >= 2
    /\ Last(tracking) = Last(attempted)
    /\ tracking[1] \in applied_migrations

\* The calls the three modes prescribe for a content.
AutocommitCalls(sql) ==
    [i \in 1..Len(statements(sql)) |->
        [text |-> statements(sql)[i], param |-> NoFile, autocommit |-> TRUE]]

SelfManagedCalls(sql) == <<[text |-> sql, param |-> NoFile, autocommit |-> FALSE]>>

WrappedCalls(sql) ==
    <<[text |-> qBEGIN, param |-> NoFile, autocommit |-> FALSE],
      [text |-> sql, param |-> NoFile, autocommit |-> FALSE],
      [text |-> qCOMMIT, param |-> NoFile, autocommit |-> FALSE]>>

\* C9: the calls apply_migration made for the last file attempted are those
\* of one mode, up to the call that raised: the statements one by one under
\* autocommit when the content has an autocommit marker, whether or not it
\* has a transaction-start marker; else the content as one call when it has
\* a transaction-start marker; else BEGIN, the content and COMMIT.
C9_ModeSelection ==
    attempted # <<>> =>
        LET sql == dir[Last(attempted)]
            expected == IF requires_autocommit(sql) THEN AutocommitCalls(sql)
                        ELSE IF has_transaction_block(sql) THEN SelfManagedCalls(sql)
                        ELSE WrappedCalls(sql)
        IN  /\ executed # <<>>
            /\ IsPrefix(executed, expected)
            /\ halted.stage # "apply" => executed = expected

\* C9 witness: a file with both an autocommit marker and a transaction-start
\* marker was run statement by statement under autocommit.
C9_Witness ==
    /\ attempted # <<>>
    /\ requires_autocommit(dir[Last(attempted)])
    /\ has_transaction_block(dir[Last(attempted)])
    /\ Len(executed) >= 2
    /\ \A i \in 1..Len(executed) : executed[i].autocommit

\* The loop is at a file of the applied set.
AtAppliedFile ==
    /\ pc = "processing"
    /\ idx \in 1..Len(sorted_files)
    /\ sorted_files[idx] \in applied_migrations

\* C10: the processing of a file of the applied set executes nothing,
\* leaves the database and the tracking table as they are, and moves to the
\* next file; no file of the applied set is ever among the files attempted.
C10_SkipAlreadyApplied ==
    [][/\ AtAppliedFile =>
            /\ attempted' = attempted
            /\ executed' = executed
            /\ commits' = commits
            /\ tracking' = tracking
            /\ pc' = "processing"
            /\ idx' = idx + 1
       /\ Range(attempted') \cap applied_migrations' = {}]_vars

\* C10 witness: an applied file was skipped and the loop is at the next
\* file, which is not applied.
C10_Witness ==
    /\ pc = "processing"
    /\ idx \in 2..Len(sorted_files)
    /\ sorted_files[idx - 1] \in applied_migrations
    /\ sorted_files[idx] \notin applied_migrations
    /\ attempted = <<>>


\* The step is a round of the loop in which apply_migration raised.
ApplyRaised == halted.stage = "none" /\ halted'.stage = "apply"

\* Statement i of file f is transaction control.
IsControl(f, i) == statement_kind[parse[dir[f]][i]].control # "none"

\* When call n raised, statement i of file f was inside a transaction block
\* that the file itself had opened and not yet ended.
InOpenBlock(f, i, n) ==
    \E j \in 1..(i - 1) :
        /\ statement_kind[parse[dir[f]][j]].control = "begin"
        /\ \A k \in (j + 1)..(n - 1) : statement_kind[parse[dir[f]][k]].control = "none"

NothingPending ==
    \/ ~dir_exists
    \/ DOMAIN dir = {}
    \/ /\ Range(sorted_files) = DOMAIN dir
       /\ idx > Len(sorted_files)
       /\ \A f \in DOMAIN dir : Recorded(f)

\* The exit status of a process that has ended.
ExitStatusSound ==
    pc = "exited" =>
        /\ Last(statuses) \in {0, 1}
        /\ Last(statuses) = 0 <=> halted.stage = "none"
        /\ Last(statuses) = 0 => NothingPending
        /\ Last(statuses) = 1 <=>
              halted.stage \in {"config", "connect", "table", "query", "apply", "record"}
        /\ halted.stage = "config" =>
              /\ ~conn_open
              /\ applied_migrations = {}
              /\ sorted_files = <<>>
              /\ attempted = <<>>

\* C12: a process ends with status 0 exactly when nothing failed, every
\* file then being recorded or there being no directory or no file, and
\* with status 1 when DATABASE_URL is missing, the database raised an error
\* or a migration failed to apply or to be recorded; the process that ends
\* for a missing DATABASE_URL does so in its first step, without a
\* connection.
C12_ExitStatus ==
    /\ []ExitStatusSound
    /\ [][(pc' = "exited" /\ halted'.stage = "config") =>
             (pc \in {"idle", "exited"} /\ ~conn_open /\ ~conn_open')]_vars

\* C12 witness: a first process ended with status 1, and a second with
\* status 0 after it applied and recorded two files.
C12_Witness ==
    /\ pc = "exited"
    /\ statuses = <<1, 0>>
    /\ Len(attempted) = 2
    /\ Len(tracking) = 2
    /\ halted.stage = "none"

\* C13: a process that has ended holds no open connection, and a connection
\* is open only in a process that runs between psycopg2.connect and its end.
C13_ConnectionRelease ==
    /\ pc = "exited" => ~conn_open
    /\ conn_open <=> pc \in {"connected", "ensured", "loaded", "processing"}

\* C13 witness: a process that had the connection ended, with the connection
\* closed, because the recording of a file raised.
C13_Witness ==
    /\ pc = "exited"
    /\ halted.stage = "record"
    /\ attempted # <<>>
    /\ ~conn_open

\* No file depends on itself, directly or through other files.
Acyclic == \A f \in DOMAIN dir : ~DependsTransitively(f, f)

\* The loop is at a file it is about to hand to apply_migration.
AtUnappliedFile ==
    /\ pc = "processing"
    /\ idx \in 1..Len(sorted_files)
    /\ sorted_files[idx] \notin applied_migrations

\* C18: with an acyclic dependency relation, whenever the loop is about to
\* hand a file to apply_migration every file it depends on has a tracking
\* row; so every file the run has attempted has all its dependencies
\* recorded, and no file attempted in a run depends on the file the run
\* failed on or on a file the run never reached.
C18_DependencySafeApplication ==
    Acyclic =>
        /\ AtUnappliedFile =>
              \A g \in DOMAIN dir : DependsOn(sorted_files[idx], g) => Recorded(g)
        /\ \A i \in 1..Len(attempted) : \A g \in DOMAIN dir :
              DependsOn(attempted[i], g) =>
                  /\ Recorded(g)
                  /\ g \in applied_migrations \/ \E j \in 1..(i - 1) : attempted[j] = g
                  /\ ~(halted.stage \in {"apply", "record"} /\ halted.file = g)

\* C18 witness: a_table.sql references b, a first run failed on
\* b_table.sql and attempted nothing else, and a second run applied
\* b_table.sql and then a_table.sql.
C18_Witness ==
    /\ Acyclic
    /\ DependsOn(nA, nB)
    /\ statuses = <<1, 0>>
    /\ Recorded(nB)
    /\ \E i, j \in 1..Len(attempted) :
          i < j /\ attempted[i] = nB /\ attempted[j] = nA

(***************************************************************************)
(* Properties of concurrent runners (checked under SpecRace)               *)
(***************************************************************************)
\* Process q has sent the INSERT of the row of file f.
TriedInsert(q, f) ==
    \E i \in 1..Len(runners[q].inserts) : runners[q].inserts[i] = f

\* Process q ended at the record_migration of file f: status 1, after the
\* rollback, with f the last file it worked on.
HaltedAtRecord(q, f) ==
    /\ runners[q].pc = "exited"
    /\ runners[q].status = 1
    /\ runners[q].stage = "record"
    /\ runners[q].order[runners[q].idx] = f
    /\ Last(runners[q].inserts) = f
    /\ runners[q].in_txn = FALSE
    /\ runners[q].pending = <<>>
    /\ f \notin runners[q].recorded

\* C14: with two runners at work on one database, the tracking table holds
\* every file name at most once; and when one runner has recorded a file
\* and the other has sent the INSERT of the same file, the other's INSERT
\* failed and that runner ended there: rolled back, status 1, no later file.
C14_ConcurrentRecord ==
    /\ \A f \in DOMAIN dir : Rows(f) <= 1
    /\ \A p \in Procs : \A q \in Procs \ {p} : \A f \in runners[p].recorded :
          TriedInsert(q, f) => HaltedAtRecord(q, f)

\* Both runners sent the INSERT of one file after applying it without a
\* fault; one recorded it, the other ended at its record_migration while
\* files of its order were left.
C14_Witness ==
    \E p \in Procs : \E q \in Procs \ {p} : \E f \in runners[p].recorded :
        /\ TriedInsert(q, f)
        /\ HaltedAtRecord(q, f)
        /\ Rows(f) = 1
        /\ runners[q].idx < Len(runners[q].order)
        /\ runners[p].pc = "exited"
        /\ runners[p].status = 0

(***************************************************************************)
(* Properties of cleanup-n8n (checked under SpecCleanup)                   *)
(***************************************************************************)
\* The positions of the DELETE requests sent for workflows or for
\* credentials.
DeleteRequests(kind) ==
    {i \in 1..Len(requests) :
        requests[i].method = "DELETE" /\ requests[i].path[1] = kind}

\* The number of DELETE requests sent for one workflow or credential.
Attempts(kind, id) ==
    Cardinality({i \in DeleteRequests(kind) : requests[i].path[2] = id})

NoDeleteRequest == DeleteRequests("workflows") \cup DeleteRequests("credentials") = {}

\* --include-active without --dry-run and without --yes.
PromptedInvocation == cleanup.include_active /\ ~cleanup.dry_run /\ ~cleanup.yes

\* A DELETE request was sent for a workflow the server reported active.
ActiveDeleteSent ==
    \E i \in 1..Len(cleanup.to_delete) :
        /\ is_active(cleanup.to_delete[i])
        /\ Attempts("workflows", cleanup.to_delete[i].id) > 0

\* C15: in an invocation with --include-active, without --dry-run and
\* without --yes, a DELETE request for an active workflow is sent only after
\* the user has confirmed the prompt; and when the user declines, the
\* process has ended with status 0 and has sent no DELETE request.
C15_ConfirmationBeforeDelete ==
    PromptedInvocation =>
        /\ ActiveDeleteSent => cleanup.confirmed = "yes"
        /\ cleanup.confirmed = "no" =>
              /\ cleanup.pc = "exited"
              /\ cleanup.status = 0
              /\ NoDeleteRequest

\* The dry run sends GET /workflows and nothing else and counts no failure;
\* when it ends by the summary it has fetched twice, its status is 0 and its
\* counts are those of the workflows chosen and of the credential ids of
\* the first fetch.
DryRunSound ==
    cleanup.dry_run =>
        /\ \A i \in 1..Len(requests) : requests[i] = Request("GET", <<"workflows">>)
        /\ cleanup.failed_workflows = 0
        /\ cleanup.failed_credentials = 0
        /\ cleanup.pc = "done" =>
              /\ Len(requests) = 2
              /\ cleanup.status = 0
              /\ cleanup.deleted_workflows = Len(cleanup.to_delete)
              /\ cleanup.deleted_credentials = Cardinality(cleanup.credential_ids)

\* The run without --dry-run that ends by the summary has sent one DELETE
\* request for each workflow chosen and one for each credential id of the
\* first fetch.
RealRunAttempts ==
    ~cleanup.dry_run /\ cleanup.pc = "done" =>
        /\ Cardinality(DeleteRequests("workflows")) = Len(cleanup.to_delete)
        /\ Cardinality(DeleteRequests("credentials")) = Cardinality(cleanup.credential_ids)

DryRunCounts == DryRunSound /\ RealRunAttempts

\* C16: a dry run sends no DELETE request whatever the other flags and
\* leaves the server as it is; it only reads the workflows; no deletion is
\* counted as failed; and its counts are those of the DELETE requests the
\* run without --dry-run sends: one for each workflow chosen by
\* delete_workflows, one for each credential id of the first fetch.
C16_DryRun ==
    /\ []DryRunCounts
    /\ [][cleanup.dry_run => server' = server]_vars

\* C16 witness: a dry run with --include-active has ended with the counts
\* of two workflows, one of them active, and two credentials.
C16_Witness ==
    /\ cleanup.dry_run
    /\ cleanup.include_active
    /\ cleanup.pc = "done"
    /\ cleanup.deleted_workflows = 2
    /\ cleanup.deleted_credentials = 2
    /\ \E i \in 1..Len(cleanup.to_delete) : is_active(cleanup.to_delete[i])
    /\ Len(server.workflows) = 2
    /\ server.credentials = CredentialIds

\* The loop of delete_workflows has been entered by a run that sends
\* requests, and the process has moved past it or has ended.
PastWorkflowLoop ==
    /\ ~cleanup.dry_run
    /\ cleanup.to_delete # <<>>
    /\ cleanup.pc \in {"credentials", "done", "exited"}

\* C17: without --include-active, every workflow chosen was reported not
\* active by the fetch (active false or absent), no DELETE request is sent
\* for any other workflow, and once the loop is left every workflow chosen
\* has had exactly one DELETE request, whatever happened to the earlier
\* ones.
C17_DefaultScope ==
    ~cleanup.include_active =>
        /\ \A i \in 1..Len(cleanup.to_delete) :
              cleanup.to_delete[i].active \in {"false", "absent"}
        /\ \A r \in DeleteRequests("workflows") :
              \E i \in 1..Len(cleanup.to_delete) :
                 cleanup.to_delete[i].id = requests[r].path[2]
        /\ PastWorkflowLoop =>
              \A i \in 1..Len(cleanup.to_delete) :
                 Attempts("workflows", cleanup.to_delete[i].id) = 1

\* A run that sends requests has ended after it sent a DELETE request, or
\* has ended by the summary.
EndedAfterDeleting ==
    /\ ~cleanup.dry_run
    /\ \/ cleanup.pc = "done"
       \/ cleanup.pc = "exited" /\ ~NoDeleteRequest

\* C19: whatever --include-active, the credentials for which a run sends a
\* DELETE request are credential ids of the workflows of the first fetch,
\* those of active workflows included; and a run that has ended after it
\* began to delete has sent one for each of them, also when the deletion
\* of a workflow failed.
C19_CredentialScope ==
    /\ \A r \in DeleteRequests("credentials") :
          requests[r].path[2] \in extract_credential_ids(cleanup.workflows)
    /\ EndedAfterDeleting =>
          \A k \in extract_credential_ids(cleanup.workflows) :
             Attempts("credentials", k) = 1

====
